---- MODULE Spec2Model ----
(***************************************************************************)
(* Batch image-processing pipeline of the watermark remover:               *)
(*   app/api/process-images/route.ts  (POST, GET, retryWithBackoff,        *)
(*                                     processImageWithRetry)              *)
(*   lib/watermark-api.ts             (WatermarkRemovalAPI)                *)
(*   app/api/status/route.ts          (GET)                                *)
(*   api/extract-gallery/route.ts     (POST, extractPixiesetGallery)       *)
(*   app/page.tsx                     (handleProcessImages, pollProgress)  *)
(* Spec and SpecPoll are the pipeline; SpecStatus, SpecRetry, SpecExtract, *)
(* SpecFlux and SpecClient are the status route, the retry wrapper, the    *)
(* gallery extractor, one call of removeWatermark and the handler of the   *)
(* page, each run on its own.                                              *)
(* The route handlers are async functions run by a single-threaded event   *)
(* loop: a handler runs without interruption between two awaits, so one    *)
(* action of the model is the code between two suspension points.          *)
(* Text values are modelled as sequences of tokens (a URL is the sequence  *)
(* of its parts, the empty sequence is the empty string).                  *)
(***************************************************************************)
EXTENDS Integers, Sequences, FiniteSets, TLC

(* ---------------- bounds of the model ---------------- *)
\* number of POST /process requests served by the process
MaxReq == 2
\* largest fileCount of a request
MaxFiles == 1
\* largest number of images the gallery extractor returns to a request
MaxGallery == 2
\* largest number of images resolved by all the requests together
MaxImages == 3

(* ---------------- program constants ---------------- *)
maxRetries == 3
retryDelay == 2000
backoffMultiplier == 2
concurrencyLimit == 2

Reqs == 1..MaxReq

\* formData.get("sessionId") is null when the field is absent; a Map accepts
\* null as a key.
NullKey == "<null>"
SessionIds == {"s1"}
StoreKeys == SessionIds \cup {NullKey}

Undefined == "<undefined>"

(* ---------------- helpers ---------------- *)
MinOf(S) == CHOOSE x \in S : \A y \in S : x <= y
MaxOf(S) == CHOOSE x \in S : \A y \in S : x >= y

\* String.prototype.startsWith("/")
StartsWithSlash(url) == Len(url) > 0 /\ url[1] = "/"

\* String.prototype.includes(tok)
Includes(url, tok) == \E k \in 1..Len(url) : url[k] = tok

\* String.prototype.replace(from, to): the first occurrence only
ReplaceFirst(url, from, to) ==
    IF ~Includes(url, from) THEN url
    ELSE LET k == CHOOSE j \in 1..Len(url) :
                     url[j] = from /\ \A m \in 1..(j - 1) : url[m] # from
         IN  [url EXCEPT ![k] = to]

\* a JavaScript string is truthy when it is neither undefined nor empty; both
\* are the empty sequence here
Truthy(s) == s # <<>>

(* ---------------- environment ---------------- *)
\* process.env: DEMO_MODE, FAL_KEY, FAL_API_KEY (Undefined when not set)
EnvConfigs ==
    { [DEMO_MODE |-> d, FAL_KEY |-> k, FAL_API_KEY |-> Undefined] :
        d \in {"true", Undefined}, k \in {Undefined, "key"} }
    \cup { [DEMO_MODE |-> "false", FAL_KEY |-> Undefined, FAL_API_KEY |-> Undefined] }

EnvTruthy(v) == v # Undefined /\ v # ""

\* const apiKey = process.env.FAL_KEY || process.env.FAL_API_KEY || ""
ApiKeyOf(e) ==
    IF EnvTruthy(e.FAL_KEY) THEN e.FAL_KEY
    ELSE IF EnvTruthy(e.FAL_API_KEY) THEN e.FAL_API_KEY
    ELSE ""

\* faulty variant: a missing credential does not activate the demo mode
IsDemoFlagOnly(e) == e.DEMO_MODE = "true"

\* if (demoMode || !apiKey)
IsDemo(e) == e.DEMO_MODE = "true" \/ ~EnvTruthy(ApiKeyOf(e))

(* ---------------- lib/watermark-api.ts: the 'fal' adapter ---------------- *)
M_Local == "Image URL must be publicly accessible. Local URLs are not supported by Fal.ai"
M_Probe == "Cannot access image URL"
M_NonJson == "Fal API error: non-JSON response"
M_Download == "Cannot download image from URL"
M_401 == "Invalid API key. Please check your Fal.ai API key."
M_403 == "Access forbidden. Please check your Fal.ai API key permissions."
M_Generic == "Fal API error"
M_BadJson == "Invalid JSON response from Fal.ai"
M_NoImages == "No processed images returned from Flux Kontext"
M_Unsupported == "Unsupported API provider"

\* what a call of an async function ends with: a returned value or a thrown Error
Returned(success, url, error, jobId) ==
    [thrown |-> FALSE, success |-> success, processedImageUrl |-> url,
     error |-> error, jobId |-> jobId]
Thrown(message) ==
    [thrown |-> TRUE, success |-> FALSE, processedImageUrl |-> <<>>,
     error |-> message, jobId |-> ""]

\* an HTTP response of https://fal.run/fal-ai/flux-pro/kontext
FalResponse(status, isJson, detailType, images, requestId) ==
    [status |-> status, isJson |-> isJson, detailType |-> detailType,
     images |-> images, request_id |-> requestId]
NoFalResponse == FalResponse(0, FALSE, "", <<>>, "")

\* Response.ok
ResponseOk(resp) == resp.status \in 200..299

\* faulty variant: the validation forgets the placeholder of the page
IsLocalUrlSlashOnly(imageUrl) == StartsWithSlash(imageUrl)

\* the validation of the URL, lines 44-47
IsLocalUrl(imageUrl) == StartsWithSlash(imageUrl) \/ Includes(imageUrl, "placeholder.svg")

\* the body of the try block after the submission returned, lines 93-150
FluxAfterSubmit(imageUrl, resp) ==
    IF ~ResponseOk(resp)
    THEN IF ~resp.isJson THEN Thrown(M_NonJson)
         ELSE IF resp.status = 422 /\ resp.detailType = "file_download_error"
              THEN Thrown(M_Download)
         ELSE IF resp.status = 401 THEN Thrown(M_401)
         ELSE IF resp.status = 403 THEN Thrown(M_403)
         ELSE Thrown(M_Generic)
    ELSE IF ~resp.isJson THEN Thrown(M_BadJson)
    ELSE IF Len(resp.images) > 0
         THEN Returned(TRUE, resp.images[1],
                       "", IF resp.request_id # "" THEN resp.request_id ELSE "flux_now")
         ELSE Thrown(M_NoImages)

\* faulty variant: the catch block rethrows instead of returning {success: false}
FluxCatchRethrows(outcome) == outcome

\* the catch block of removeWithFluxKontext, lines 151-157
FluxCatch(outcome) ==
    IF outcome.thrown THEN Returned(FALSE, <<>>, outcome.error, "") ELSE outcome

(* ---------------- route.ts: retryWithBackoff ---------------- *)
\* faulty variant: the retry test is off by one
ShouldRetryOffByOne(outcome, retries) == outcome.thrown /\ retries > 1

\* faulty variant: the loop goes on after an attempt that resolved
ShouldRetryAfterSuccess(outcome, retries) == retries > 0

\* catch (error) { if (retries > 0) ... }, lines 45-50
ShouldRetry(outcome, retries) == outcome.thrown /\ retries > 0

\* delay * RETRY_CONFIG.backoffMultiplier, line 49
NextDelay(delay) == delay * backoffMultiplier

(* ---------------- route.ts: processImageWithRetry ---------------- *)
ProcessingResult(originalUrl, processedUrl, filename, status, message, jobId) ==
    [originalUrl |-> originalUrl, processedUrl |-> processedUrl, filename |-> filename,
     status |-> status, message |-> message, jobId |-> jobId]
NoResult == ProcessingResult(<<>>, <<>>, "", "none", "", "")

\* faulty variant: the success test forgets the processed URL
processImageWithRetryNoUrlTest(imageUrl, filename, outcome) ==
    IF outcome.thrown
    THEN ProcessingResult(imageUrl, imageUrl, filename, "error", outcome.error, "")
    ELSE IF outcome.success
         THEN ProcessingResult(imageUrl, outcome.processedImageUrl, filename, "success",
                               "", outcome.jobId)
         ELSE ProcessingResult(imageUrl, imageUrl, filename, "error",
                               IF outcome.error # "" THEN outcome.error
                               ELSE "Processing failed", "")

\* lines 60-90, given what retryWithBackoff ended with
processImageWithRetry(imageUrl, filename, outcome) ==
    IF outcome.thrown
    THEN ProcessingResult(imageUrl, imageUrl, filename, "error", outcome.error, "")
    ELSE IF outcome.success /\ Truthy(outcome.processedImageUrl)
         THEN ProcessingResult(imageUrl, outcome.processedImageUrl, filename, "success",
                               "", outcome.jobId)
         ELSE ProcessingResult(imageUrl, imageUrl, filename, "error",
                               IF outcome.error # "" THEN outcome.error
                               ELSE "Processing failed", "")

\* removeWatermark: the switch on settings.provider, lines 21-36
SupportedProviders == {"fal", "lightpdf", "watermarkremover", "rapidapi", "custom"}
removeWatermark(provider, inner) ==
    IF provider \in SupportedProviders THEN FluxCatch(inner) ELSE Thrown(M_Unsupported)

\* apiSettings.provider of POST, line 130
ConfiguredProvider == "fal"

(* ---------------- route.ts: the inputs of POST ---------------- *)
Image(url, filename, isUploaded) ==
    [url |-> url, filename |-> filename, isUploaded |-> isUploaded]

FileName(j) == "file_" \o ToString(j) \o ".jpg"
\* blob.url of a successful put, unique per upload
BlobUrl(r, j) == <<"https://blob.vercel-storage.com/uploads/", ToString(r), FileName(j)>>
\* the data: URL built when put throws, lines 160-162
DataUrl(r, j) == <<"data:image/jpeg;base64,", ToString(r), FileName(j)>>

\* the upload loop, lines 138-172: file j of the form (0-based in the code)
RECURSIVE UploadLoop(_, _, _, _, _)
UploadLoop(r, j, fileCount, present, putOk) ==
    IF j > fileCount THEN <<>>
    ELSE (IF ~present[j] THEN <<>>
          ELSE IF putOk[j] THEN <<Image(BlobUrl(r, j), FileName(j), TRUE)>>
          ELSE <<Image(DataUrl(r, j), FileName(j), TRUE)>>)
         \o UploadLoop(r, j + 1, fileCount, present, putOk)

\* number of put calls of the loop: one per file present
PutCount(fileCount, present) == Cardinality({j \in 1..fileCount : present[j]})

\* images of the answer of /api/extract-gallery: every second image of the
\* page is a protocol relative one ("//images.pixieset.com/..."), which starts
\* with "/"
GalleryImage(n) ==
    Image(IF n % 2 = 0 THEN <<"/", "/images.pixieset.com/", ToString(n)>>
          ELSE <<"https://images.pixieset.com/", ToString(n)>>,
          "pixieset_image_" \o ToString(n) \o ".jpg", FALSE)

\* what the gallery step of POST meets: no galleryUrl, a galleryUrl the extractor
\* refuses with 400 (not a URL, or not of the supported platform), another
\* failed extraction (404, 500, or a fetch that throws), or a list of at least
\* one image
GalleryAnswers ==
    { [kind |-> "none", images |-> <<>>], [kind |-> "rejected", images |-> <<>>],
      [kind |-> "fail", images |-> <<>>] }
    \cup { [kind |-> "ok", images |-> [n \in 1..len |-> GalleryImage(n)]] :
             len \in 1..MaxGallery }

\* the else branch of line 197 or the catch of line 203 is entered
GalleryFailed(gallery) == gallery.kind \in {"rejected", "fail"}

\* the fallback list, lines 213-226
FallbackImages ==
    << Image(<<"https://images.unsplash.com/", "photo-1503023345310">>,
             "sample_landscape.jpg", FALSE),
       Image(<<"https://images.unsplash.com/", "photo-1516117172878">>,
             "sample_architecture.jpg", FALSE) >>

\* the demo list, lines 108-112
SampleImage(n) ==
    [url |-> <<"/", "placeholder.svg", "Sample+Image+" \o ToString(n), "with+Watermark">>,
     filename |-> "sample_" \o ToString(n) \o ".jpg"]
sampleImages == << SampleImage(1), SampleImage(2), SampleImage(3) >>

\* the demo results, lines 115-121
DemoResults ==
    [n \in 1..Len(sampleImages) |->
        ProcessingResult(sampleImages[n].url,
                         ReplaceFirst(sampleImages[n].url, "with+Watermark", "Watermark+Removed"),
                         sampleImages[n].filename, "success", "Demo processing completed", "")]

\* faulty variant: the fallback list is never substituted
WithFallbackNever(images) == images

\* imagesToProcess after the fallback, lines 212-226
WithFallback(images) == IF Len(images) = 0 THEN FallbackImages ELSE images

(* ---------------- the progress store ---------------- *)
NoSnapshot == [absent |-> TRUE]

\* lines 231-237
NewProgress(total) ==
    [total |-> total, completed |-> 0, current |-> "", status |-> "processing",
     results |-> <<>>]

\* faulty variant: only the first task of the window writes current
WriteCurrentFirst(progress, batch) ==
    IF progress = NoSnapshot \/ Len(batch) = 0 THEN progress
    ELSE [progress EXCEPT !.current = Head(batch).filename]

\* lines 253-257, by every task of a window in order: the last writer wins
RECURSIVE WriteCurrent(_, _)
WriteCurrent(progress, batch) ==
    IF progress = NoSnapshot \/ Len(batch) = 0 THEN progress
    ELSE WriteCurrent([progress EXCEPT !.current = Head(batch).filename], Tail(batch))

\* faulty variant: the result is not appended by the update that completes the batch
CompleteUpdateDropsLast(progress, result) ==
    IF progress = NoSnapshot THEN progress
    ELSE LET p1 == [progress EXCEPT !.completed = @ + 1]
         IN  IF p1.completed >= p1.total
             THEN [p1 EXCEPT !.status = "completed", !.current = ""]
             ELSE [p1 EXCEPT !.results = Append(@, result)]

\* faulty variant: the completion test is strict
CompleteUpdateStrict(progress, result) ==
    IF progress = NoSnapshot THEN progress
    ELSE LET p1 == [progress EXCEPT !.completed = @ + 1,
                                    !.results = Append(@, result)]
         IN  IF p1.completed > p1.total
             THEN [p1 EXCEPT !.status = "completed", !.current = ""]
             ELSE p1

\* lines 262-273
CompleteUpdate(progress, result) ==
    IF progress = NoSnapshot THEN progress
    ELSE LET p1 == [progress EXCEPT !.completed = @ + 1,
                                    !.results = Append(@, result)]
         IN  IF p1.completed >= p1.total
             THEN [p1 EXCEPT !.status = "completed", !.current = ""]
             ELSE p1

(* ---------------- the tasks of a request ---------------- *)
NotStarted ==
    [st |-> "pending", calls |-> 0, retries |-> maxRetries, delay |-> retryDelay,
     waits |-> <<>>, result |-> NoResult]

\* the first call fn() of retryWithBackoff, line 44
Started == [NotStarted EXCEPT !.st = "inflight", !.calls = 1]

\* faulty variant: the loop steps over one image too many
NextWindowSkips(i) == i + concurrencyLimit + 1

\* i + concurrencyLimit, line 248
NextWindow(i) == i + concurrencyLimit

\* faulty variant: the slice holds one image less
WindowOfShort(images, i) ==
    { j \in 1..Len(images) : j > i /\ j < i + concurrencyLimit }

\* batch = imagesToProcess.slice(i, i + concurrencyLimit), 0-based i
WindowOf(images, i) ==
    { j \in 1..Len(images) : j > i /\ j <= i + concurrencyLimit }

\* faulty variant: Promise.all resolves with the first task that completes
WindowSettledByAny(tasks, images, i) ==
    \E j \in WindowOf(images, i) : tasks[j].st = "done"

\* await Promise.all(batchPromises), line 278: every task of the window has
\* returned its result
WindowSettled(tasks, images, i) ==
    \A j \in WindowOf(images, i) : tasks[j].st = "done"

Slice(seq, i) == [j \in 1..(IF Len(seq) - i < concurrencyLimit THEN Len(seq) - i
                            ELSE concurrencyLimit) |-> seq[i + j]]

(* ---------------- state ---------------- *)
VARIABLES
    env,              \* process.env
    progressStore,    \* the Map of line 29: key -> ProcessingProgress
    pc,               \* where each POST request is: "idle", "run", "done"
    sessionId,        \* the sessionId of each request
    imagesToProcess,  \* the resolved list of each request
    winStart,         \* the loop variable i of line 248
    task,             \* the state of every task of a request
    results,          \* the results array of line 246
    response,         \* the response of each POST
    getResponse,      \* the response of the GET served by the last step, if any
    external,         \* calls made so far: storage writes, gallery fetches, provider fetches
    form,             \* what each POST read from its form and met while resolving it
    statusResponse,   \* the response of GET /status
    retry,            \* one run of processImageWithRetry over a rejecting operation
    extract,          \* one request of POST /extract-gallery
    flux,             \* one call of removeWatermark
    client            \* the page: one run of handleProcessImages

vars == << env, progressStore, pc, sessionId, imagesToProcess, winStart, task, results,
           response, getResponse, external, form, statusResponse, retry, extract, flux,
           client >>

\* the state of the other routes and of the retry wrapper run on its own
unitVars == << statusResponse, retry, extract, flux, client >>
\* the state of POST and GET /process
pipelineVars == << progressStore, pc, sessionId, imagesToProcess, winStart, task, results,
                   response, getResponse, external, form >>

NoResponse == [status |-> 0]
NoGet == [status |-> 0]
NoForm == [present |-> {}, stored |-> {}, gallery |-> "none"]
NoStatus == [status |-> 0]
NoRetry == [pc |-> "off"]
NoExtract == [pc |-> "off"]
NoFlux == [pc |-> "off"]
NoClient == [pc |-> "off"]

\* the module state of route.ts before any request
PipelineIdle ==
    /\ progressStore = [k \in StoreKeys |-> NoSnapshot]
    /\ pc = [r \in Reqs |-> "idle"]
    /\ sessionId = [r \in Reqs |-> NullKey]
    /\ imagesToProcess = [r \in Reqs |-> <<>>]
    /\ winStart = [r \in Reqs |-> 0]
    /\ task = [r \in Reqs |-> <<>>]
    /\ results = [r \in Reqs |-> <<>>]
    /\ response = [r \in Reqs |-> NoResponse]
    /\ getResponse = NoGet
    /\ external = [put |-> 0, gallery |-> 0, provider |-> 0]
    /\ form = [r \in Reqs |-> NoForm]

Init ==
    /\ env \in EnvConfigs
    /\ PipelineIdle
    /\ statusResponse = NoStatus
    /\ retry = NoRetry
    /\ extract = NoExtract
    /\ flux = NoFlux
    /\ client = NoClient

RECURSIVE SumLen(_, _)
SumLen(f, n) == IF n = 0 THEN 0 ELSE Len(f[n]) + SumLen(f, n - 1)
ImagesSoFar == SumLen(imagesToProcess, MaxReq)

\* the tasks of the window that starts at i are launched: each writes current,
\* then calls processImageWithRetry up to its first await (lines 249-259)
LaunchWindow(r, key, store, images, i, tasks) ==
    /\ progressStore' = [store EXCEPT ![key] = WriteCurrent(@, Slice(images, i))]
    /\ task' = [task EXCEPT ![r] =
                  [j \in 1..Len(images) |->
                      IF j \in WindowOf(images, i) THEN Started ELSE tasks[j]]]
    /\ winStart' = [winStart EXCEPT ![r] = i]

\* POST /process up to the await of the first window: the form and the
\* environment are read, the image list is resolved, the snapshot is stored and
\* the first window is launched (lines 95-278). The awaits before line 231
\* (formData, put, the gallery fetch) touch no state shared between requests.
Post(r) ==
    /\ pc[r] = "idle"
    /\ \A q \in Reqs : q < r => pc[q] # "idle"
    /\ getResponse' = NoGet
    /\ \E key \in StoreKeys, fileCount \in 0..MaxFiles, gallery \in GalleryAnswers :
       \E present \in [1..fileCount -> BOOLEAN], putOk \in [1..fileCount -> BOOLEAN] :
         /\ sessionId' = [sessionId EXCEPT ![r] = key]
         /\ IF IsDemo(env)
            THEN \* no put is called: one choice of putOk stands for all
                 /\ \A j \in 1..fileCount : putOk[j]
                 /\ form' = [form EXCEPT ![r] =
                        [present |-> { j \in 1..fileCount : present[j] }, stored |-> {},
                         gallery |-> gallery.kind]]
                 /\ response' = [response EXCEPT ![r] =
                        [status |-> 200, results |-> DemoResults, sessionId |-> key,
                         demoMode |-> TRUE, error |-> ""]]
                 /\ pc' = [pc EXCEPT ![r] = "done"]
                 /\ UNCHANGED << progressStore, imagesToProcess, winStart, task, results,
                                 external >>
            ELSE LET uploaded == UploadLoop(r, 1, fileCount, present, putOk)
                     resolved == uploaded \o gallery.images
                     images == WithFallback(resolved)
                 IN  \* put is called for the files present only
                     /\ \A j \in 1..fileCount : ~present[j] => putOk[j]
                     /\ form' = [form EXCEPT ![r] =
                            [present |-> { j \in 1..fileCount : present[j] },
                             stored |-> { j \in 1..fileCount : present[j] /\ putOk[j] },
                             gallery |-> gallery.kind]]
                     /\ external' = [external EXCEPT
                            !.put = @ + PutCount(fileCount, present),
                            !.gallery = @ + (IF gallery.kind = "none" THEN 0 ELSE 1)]
                     /\ (IF GalleryFailed(gallery) /\ Len(uploaded) = 0 THEN 0
                         ELSE Len(images)) + ImagesSoFar <= MaxImages
                     /\ IF GalleryFailed(gallery) /\ Len(uploaded) = 0
                        THEN \* lines 203-208 and 283-291
                             /\ response' = [response EXCEPT ![r] =
                                    [status |-> 500, results |-> <<>>, sessionId |-> key,
                                     demoMode |-> FALSE,
                                     error |-> "Gallery extraction failed"]]
                             /\ pc' = [pc EXCEPT ![r] = "done"]
                             /\ UNCHANGED << progressStore, imagesToProcess, winStart,
                                             task, results >>
                        ELSE /\ imagesToProcess' = [imagesToProcess EXCEPT ![r] = images]
                             /\ pc' = [pc EXCEPT ![r] = "run"]
                             /\ LaunchWindow(r, key,
                                    [progressStore EXCEPT ![key] = NewProgress(Len(images))],
                                    images, 0, [j \in 1..Len(images) |-> NotStarted])
                             /\ UNCHANGED << results, response >>
    /\ UNCHANGED << env, unitVars >>

\* the answers of the provider to a submission
FalAnswers(imageUrl) ==
    { FalResponse(200, TRUE, "", << <<"https://fal.media/files/">> \o imageUrl >>, "req"),
      FalResponse(200, TRUE, "", << <<>> >>, "req") }

\* what the try block of removeWithFluxKontext ends with (lines 39-150): the
\* validation throws for a local URL before any fetch; otherwise the probe
\* fails, or the submission is answered
FluxTryOutcomes(imageUrl) ==
    IF IsLocalUrl(imageUrl) THEN { Thrown(M_Local) }
    ELSE { Thrown(M_Probe) } \cup { FluxAfterSubmit(imageUrl, a) : a \in FalAnswers(imageUrl) }

\* fetches of one attempt: none, the probe alone, or the probe and the submission
FetchCount(inner) ==
    IF inner = Thrown(M_Local) THEN 0 ELSE IF inner = Thrown(M_Probe) THEN 1 ELSE 2

\* an attempt of removeWatermark ended: retryWithBackoff either waits and calls
\* fn() again (lines 46-49), or ends; then processImageWithRetry builds the
\* result and the task updates the snapshot (lines 259-275)
AttemptDone(r, j) ==
    /\ pc[r] # "idle"
    /\ j \in 1..Len(task[r])
    /\ task[r][j].st = "inflight"
    /\ \E inner \in FluxTryOutcomes(imagesToProcess[r][j].url) :
         LET image == imagesToProcess[r][j]
             t == task[r][j]
             outcome == removeWatermark(ConfiguredProvider, inner)
         IN  /\ external' = [external EXCEPT !.provider = @ + FetchCount(inner)]
             /\ IF ShouldRetry(outcome, t.retries)
                THEN /\ task' = [task EXCEPT ![r][j] =
                            [t EXCEPT !.calls = @ + 1, !.retries = @ - 1,
                                      !.delay = NextDelay(@),
                                      !.waits = Append(@, t.delay)]]
                     /\ UNCHANGED progressStore
                ELSE LET result == processImageWithRetry(image.url, image.filename, outcome)
                     IN  /\ task' = [task EXCEPT ![r][j] =
                                [t EXCEPT !.st = "done", !.result = result]]
                         /\ progressStore' = [progressStore EXCEPT
                                ![sessionId[r]] = CompleteUpdate(@, result)]
    /\ getResponse' = NoGet
    /\ UNCHANGED << env, pc, sessionId, imagesToProcess, winStart, results, response,
                    form, unitVars >>

\* Promise.all of the window resolved: its results are pushed in input order,
\* then the next window is launched or the response is returned (lines 278-282)
Join(r) ==
    /\ pc[r] = "run"
    /\ WindowSettled(task[r], imagesToProcess[r], winStart[r])
    /\ LET images == imagesToProcess[r]
           i == winStart[r]
           batchResults == [n \in 1..Len(Slice(images, i)) |-> task[r][i + n].result]
           all == results[r] \o batchResults
       IN  /\ results' = [results EXCEPT ![r] = all]
           /\ IF NextWindow(i) < Len(images)
              THEN /\ LaunchWindow(r, sessionId[r], progressStore, images, NextWindow(i),
                                   task[r])
                   /\ UNCHANGED << pc, response >>
              ELSE /\ pc' = [pc EXCEPT ![r] = "done"]
                   /\ response' = [response EXCEPT ![r] =
                          [status |-> 200, results |-> all, sessionId |-> sessionId[r],
                           demoMode |-> FALSE, error |-> ""]]
                   /\ UNCHANGED << progressStore, task, winStart >>
    /\ getResponse' = NoGet
    /\ UNCHANGED << env, sessionId, imagesToProcess, external, form, unitVars >>

\* faulty variant: the test of the parameter is missing
GetStatusNoParamTest(q) == IF progressStore[q] = NoSnapshot THEN 404 ELSE 200

\* GET /process?sessionId=q (lines 295-309); NullKey is the absent parameter
GetStatus(q) == IF q = NullKey THEN 400 ELSE IF progressStore[q] = NoSnapshot THEN 404 ELSE 200

Get(q) ==
    /\ getResponse' =
          [status |-> GetStatus(q), sessionId |-> q,
           body |-> IF GetStatus(q) = 200 THEN progressStore[q] ELSE NoSnapshot]
    /\ UNCHANGED << env, progressStore, pc, sessionId, imagesToProcess, winStart, task,
                    results, response, external, form, unitVars >>

MaxTasks == MaxFiles + MaxGallery + Len(FallbackImages)

Next ==
    \/ \E r \in Reqs : Post(r)
    \/ \E r \in Reqs, j \in 1..MaxTasks : AttemptDone(r, j)
    \/ \E r \in Reqs : Join(r)

Spec == Init /\ [][Next]_vars

\* the server together with clients that poll GET /process
NextPoll ==
    \/ Next
    \/ \E q \in StoreKeys : Get(q)

SpecPoll == Init /\ [][NextPoll]_vars

(* ======================= properties ======================= *)
Snapshots == { k \in StoreKeys : progressStore[k] # NoSnapshot }
Running == { r \in Reqs : pc[r] = "run" }
\* the requests that stored a snapshot under key k
Writers(k) == { r \in Reqs : sessionId[r] = k /\ Len(imagesToProcess[r]) > 0 }
RangeOf(seq) == { seq[n] : n \in 1..Len(seq) }

\* C1: in every reachable state, every snapshot of the progress store has as
\* many results as its completed counter says, whatever the interleaving of the
\* tasks of a window and of concurrent POST requests
C1_ResultsMatchCompleted ==
    \A k \in Snapshots : Len(progressStore[k].results) = progressStore[k].completed

\* two requests run at once on the same key and two tasks have completed
C1_Witness ==
    \E k \in Snapshots :
        /\ progressStore[k].completed = 2
        /\ pc[1] = "run" /\ pc[2] = "run"
        /\ sessionId[1] = k /\ sessionId[2] = k

\* C2: once every request has been answered, the snapshot of every non-demo
\* request that carried a sessionId and whose image list was resolved has
\* status completed with completed = total, which is the state a poller that
\* keeps polling that sessionId must end up reading
C2_FinalSnapshotComplete ==
    \A r \in Reqs :
        (Running = {} /\ pc[r] = "done" /\ Len(imagesToProcess[r]) > 0
            /\ sessionId[r] \in SessionIds)
        => /\ progressStore[sessionId[r]] # NoSnapshot
           /\ progressStore[sessionId[r]].status = "completed"
           /\ progressStore[sessionId[r]].completed = progressStore[sessionId[r]].total

\* C3: a task whose provider call failed on every attempt has made
\* maxRetries + 1 calls of removeWatermark, separated by waits of 2000, 4000
\* and 8000 ms, when its error result is produced
C3_FailingTaskRetries ==
    \A r \in Reqs : \A j \in 1..Len(task[r]) :
        (task[r][j].st = "done" /\ task[r][j].result.status = "error"
            /\ task[r][j].result.message # "Processing failed")
        => /\ task[r][j].calls = maxRetries + 1
           /\ task[r][j].waits = << retryDelay, retryDelay * backoffMultiplier,
                                    retryDelay * backoffMultiplier * backoffMultiplier >>

\* C4: a batch of N resolved tasks is never aborted by failing tasks: it is
\* answered only when every task has been started and has completed, with
\* status 200 and exactly N results, one per task, in task order
C4_BatchNotAborted ==
    \A r \in Reqs :
        (pc[r] = "done" /\ Len(imagesToProcess[r]) > 0)
        => /\ response[r].status = 200
           /\ Len(response[r].results) = Len(imagesToProcess[r])
           /\ \A j \in 1..Len(imagesToProcess[r]) :
                 /\ task[r][j].st = "done"
                 /\ task[r][j].calls >= 1
                 /\ j <= Len(response[r].results)
                 /\ response[r].results[j].originalUrl = imagesToProcess[r][j].url
                 /\ response[r].results[j].filename = imagesToProcess[r][j].filename
                 /\ response[r].results[j].status \in {"success", "error"}

\* a batch of three tasks whose first window failed entirely was answered
C4_Witness ==
    \E r \in Reqs :
        /\ pc[r] = "done" /\ Len(imagesToProcess[r]) = 3
        /\ response[r].status = 200
        /\ response[r].results[1].status = "error"
        /\ response[r].results[2].status = "error"
        /\ Len(response[r].results) = 3

\* the results a provider-backed request has stored or returned
StoredResults == UNION { RangeOf(progressStore[k].results) : k \in Snapshots }
ReturnedResults ==
    UNION { RangeOf(response[r].results) :
              r \in { q \in Reqs : pc[q] = "done" /\ Len(imagesToProcess[q]) > 0 } }
SourceUrls == UNION { { imagesToProcess[r][j].url : j \in 1..Len(imagesToProcess[r]) } :
                      r \in Reqs }
ProviderUrls(url) == { a.images[1] : a \in { b \in FalAnswers(url) : Len(b.images) > 0 } }

C6_CompletedBoundedMonotone ==
    [][ \A k \in SessionIds :
          /\ progressStore'[k] # NoSnapshot =>
                /\ 0 <= progressStore'[k].completed
                /\ progressStore'[k].completed <= progressStore'[k].total
          /\ progressStore[k] # NoSnapshot =>
                /\ progressStore'[k] # NoSnapshot
                /\ progressStore'[k].completed >= progressStore[k].completed ]_vars

\* C7: once a snapshot exists for a sessionId, its total never changes and the
\* entry is never replaced by another snapshot
C7_TotalFixedEntryKept ==
    [][ \A k \in StoreKeys :
          progressStore[k] # NoSnapshot =>
              /\ progressStore'[k] # NoSnapshot
              /\ progressStore'[k].total = progressStore[k].total
              /\ \A n \in 1..Len(progressStore[k].results) :
                    /\ n <= Len(progressStore'[k].results)
                    /\ progressStore'[k].results[n] = progressStore[k].results[n] ]_vars

\* C8: the snapshot of a session written by a single batch has status completed
\* exactly when completed = total and processing otherwise (never error), and
\* its current field is empty whenever it is completed
C8_StatusTracksCompletion ==
    \A k \in Snapshots :
        Cardinality(Writers(k)) = 1 =>
            /\ progressStore[k].status \in {"processing", "completed"}
            /\ progressStore[k].status = "completed"
                  <=> progressStore[k].completed = progressStore[k].total
            /\ progressStore[k].status = "completed" => progressStore[k].current = ""

\* a single batch of three tasks has completed
C8_Witness ==
    \E k \in Snapshots :
        /\ Cardinality(Writers(k)) = 1
        /\ progressStore[k].total = 3
        /\ progressStore[k].status = "completed"

\* C9: GET answers 400 without a sessionId, 404 when the store has no snapshot
\* for the sessionId, and otherwise 200 with the snapshot; in all three cases
\* the step leaves the progress store as it was
C9_GetAnswer ==
    [][ getResponse' # NoGet =>
          LET q == getResponse'.sessionId
          IN  /\ progressStore' = progressStore
              /\ q = NullKey => getResponse'.status = 400
              /\ (q # NullKey /\ progressStore[q] = NoSnapshot) =>
                    getResponse'.status = 404
              /\ (q # NullKey /\ progressStore[q] # NoSnapshot) =>
                    /\ getResponse'.status = 200
                    /\ getResponse'.body = progressStore[q] ]_vars

\* a poller reads a batch in progress
C9_Witness ==
    /\ getResponse.status = 200
    /\ getResponse.body.status = "processing"
    /\ getResponse.body.completed = 1

\* C10: with DEMO_MODE 'true' or without a credential, every POST is answered
\* with the fixed three synthetic success results and demoMode true, and nothing
\* else happens: no storage write, no gallery fetch, no provider call, no
\* snapshot, so that a GET for the sessionId still answers 404
C10_DemoHasNoEffect ==
    (env.DEMO_MODE = "true" \/ (env.FAL_KEY = Undefined /\ env.FAL_API_KEY = Undefined))
    => /\ Snapshots = {}
       /\ external = [put |-> 0, gallery |-> 0, provider |-> 0]
       /\ getResponse.status \in {0, 400, 404}
       /\ \A r \in Reqs :
             /\ pc[r] \in {"idle", "done"}
             /\ task[r] = <<>>
             /\ pc[r] = "done" =>
                   /\ response[r].status = 200
                   /\ response[r].demoMode
                   /\ response[r].sessionId = sessionId[r]
                   /\ Len(response[r].results) = 3
                   /\ \A n \in 1..3 :
                         /\ response[r].results[n].status = "success"
                         /\ response[r].results[n].filename = "sample_" \o ToString(n) \o ".jpg"
                         /\ Includes(response[r].results[n].originalUrl, "with+Watermark")
                         /\ Includes(response[r].results[n].processedUrl, "Watermark+Removed")
                         /\ ~Includes(response[r].results[n].processedUrl, "with+Watermark")

\* without a credential a POST for s1 was answered and a GET for s1 answers 404
C10_Witness ==
    /\ env.DEMO_MODE # "true"
    /\ pc[1] = "done" /\ response[1].demoMode /\ sessionId[1] = "s1"
    /\ getResponse.status = 404 /\ getResponse.sessionId = "s1"

(* ---------------- the scheduler and the inputs of POST ---------------- *)
\* the provider calls started and not yet finished, over all the requests
InFlight ==
    { c \in Reqs \X (1..MaxTasks) :
        c[2] <= Len(task[c[1]]) /\ task[c[1]][c[2]].st = "inflight" }

\* C11: in every reachable state at most concurrencyLimit = 2 provider calls
\* are in flight in the process, whatever the number of POST requests served
\* at the same time
C11_AtMostTwoInFlight == Cardinality(InFlight) <= concurrencyLimit

\* the requests that met the provider-backed path
Served == { r \in Reqs : pc[r] # "idle" /\ ~IsDemo(env) }

\* C14: a provider-backed POST whose form has no sessionId, or whose galleryUrl
\* the extractor refuses as malformed or unsupported, is answered at once with
\* a 4xx status and an error message, creates no snapshot and starts no task
C14_MalformedInputRefused ==
    \A r \in Served :
        (sessionId[r] = NullKey \/ form[r].gallery = "rejected")
        => /\ pc[r] = "done"
           /\ response[r].status \in 400..499
           /\ response[r].error # ""
           /\ Len(imagesToProcess[r]) = 0
           /\ task[r] = <<>>
           /\ sessionId[r] = NullKey => progressStore[NullKey] = NoSnapshot

\* the gallery step of request r failed while no uploaded task existed
FailedEmpty(r) == form[r].gallery \in {"rejected", "fail"} /\ form[r].present = {}

\* C15: a provider-backed POST never starts the scheduler on an empty list; the
\* fallback list is the list of the request exactly when the form had no file
\* and no galleryUrl; a gallery failure without uploaded task ends the request
\* with 500, without list, task, snapshot or provider call; a gallery failure
\* with uploaded tasks is swallowed and the batch is the uploaded tasks
C15_FallbackAndGalleryFailure ==
    /\ \A r \in Served :
          /\ pc[r] = "run" => Len(imagesToProcess[r]) > 0
          /\ imagesToProcess[r] = FallbackImages
                <=> (form[r].present = {} /\ form[r].gallery = "none")
          /\ FailedEmpty(r) =>
                /\ pc[r] = "done" /\ response[r].status = 500
                /\ response[r].results = <<>>
                /\ imagesToProcess[r] = <<>> /\ task[r] = <<>>
          /\ (form[r].gallery \in {"rejected", "fail"} /\ form[r].present # {}) =>
                /\ Len(imagesToProcess[r]) = Cardinality(form[r].present)
                /\ \A n \in 1..Len(imagesToProcess[r]) : imagesToProcess[r][n].isUploaded
                /\ pc[r] = "done" =>
                      /\ response[r].status = 200
                      /\ Len(response[r].results) = Cardinality(form[r].present)
    /\ (\A r \in Reqs : pc[r] = "idle" \/ FailedEmpty(r)) =>
          /\ Snapshots = {}
          /\ external.provider = 0

\* one request failed with 500 on its gallery, another one swallowed the
\* failure and was answered with the result of its uploaded file
C15_Witness ==
    \E r, q \in Served :
        /\ FailedEmpty(r) /\ response[r].status = 500
        /\ form[q].gallery = "fail" /\ form[q].present # {}
        /\ pc[q] = "done" /\ response[q].status = 200

\* the results of a sequence that stand for the task of file j of request r
ResultsOfFile(seq, r, j) ==
    { n \in 1..Len(seq) :
        seq[n].filename = FileName(j) /\ seq[n].originalUrl \in {BlobUrl(r, j), DataUrl(r, j)} }

\* C16: every file present in the form of a provider-backed POST that carried a
\* sessionId has exactly one task, with the blob URL when the storage write succeeded and the data:
\* URL when it failed; once the request is answered, the answer is 200 and the
\* response and the snapshot of the session each hold exactly one result of
\* that task, with status success or error
C16_UploadedFileKept ==
    \A r \in { q \in Served : sessionId[q] \in SessionIds } : \A j \in form[r].present :
        /\ Cardinality({ n \in 1..Len(imagesToProcess[r]) :
                           /\ imagesToProcess[r][n].isUploaded
                           /\ imagesToProcess[r][n].filename = FileName(j)
                           /\ imagesToProcess[r][n].url =
                                 IF j \in form[r].stored THEN BlobUrl(r, j)
                                 ELSE DataUrl(r, j) }) = 1
        /\ pc[r] = "done" =>
              /\ response[r].status = 200
              /\ Cardinality(ResultsOfFile(response[r].results, r, j)) = 1
              /\ \A n \in ResultsOfFile(response[r].results, r, j) :
                    response[r].results[n].status \in {"success", "error"}
              /\ progressStore[sessionId[r]] # NoSnapshot
              /\ Cardinality(ResultsOfFile(progressStore[sessionId[r]].results, r, j)) = 1

\* the window of task j (0-based)
WindowIndex(j) == (j - 1) \div concurrencyLimit

\* C20: within a batch, a task is started only when every task of the earlier
\* windows has completed and appended its result, a task completes only when
\* every task of its window has been started, and the current field of a
\* snapshot written by a single batch names a task of the window in flight
C20_WindowsInOrder ==
    \A r \in Reqs :
        /\ \A j, n \in 1..Len(task[r]) :
              /\ (task[r][j].st # "pending" /\ WindowIndex(n) < WindowIndex(j))
                    => task[r][n].st = "done"
              /\ (task[r][j].st = "done" /\ WindowIndex(n) = WindowIndex(j))
                    => task[r][n].st # "pending"
              /\ (task[r][j].st # "pending" /\ n < j) => task[r][n].st # "pending"
        /\ (pc[r] = "run" /\ Cardinality(Writers(sessionId[r])) = 1) =>
              LET p == progressStore[sessionId[r]]
              IN  /\ Len(p.results) >= winStart[r]
                  /\ p.current \in
                        {""} \cup { imagesToProcess[r][j].filename :
                                     j \in WindowOf(imagesToProcess[r], winStart[r]) }

\* the second window of a batch of three tasks is in flight
C20_Witness ==
    \E r \in Reqs :
        /\ Len(task[r]) = 3 /\ winStart[r] = 2
        /\ task[r][1].st = "done" /\ task[r][2].st = "done"
        /\ task[r][3].st = "inflight"
        /\ progressStore[sessionId[r]].current = imagesToProcess[r][3].filename

\* ceil(n / concurrencyLimit)
CeilWindows(n) == (n + concurrencyLimit - 1) \div concurrencyLimit

\* C21: a batch of N >= 1 tasks runs ceil(N/2) windows: the loop variable only
\* moves by 2, from a window of exactly 2 completed tasks, and the batch is
\* answered from the window number ceil(N/2), which holds 1 or 2 tasks; a task
\* in flight is never started again, a completed task is never touched again,
\* and when the batch is answered every task has been started once and has
\* completed
C21_WindowsCoverTasks ==
    [][ \A r \in Reqs :
          /\ \A j \in 1..Len(task[r]) :
                /\ task[r][j].st = "inflight" =>
                      /\ task'[r][j].st \in {"inflight", "done"}
                      /\ task'[r][j].st = "inflight" => task'[r][j] = task[r][j]
                /\ task[r][j].st = "done" => task'[r][j] = task[r][j]
          /\ winStart'[r] # winStart[r] =>
                /\ winStart'[r] = winStart[r] + concurrencyLimit
                /\ Cardinality(WindowOf(imagesToProcess[r], winStart[r])) = concurrencyLimit
                /\ \A j \in WindowOf(imagesToProcess[r], winStart[r]) :
                      task[r][j].st = "done"
                /\ \A j \in 1..Len(task[r]) :
                      task'[r][j].st = "inflight" /\ task[r][j].st = "pending"
                         <=> j \in WindowOf(imagesToProcess[r], winStart'[r])
          /\ (pc'[r] = "done" /\ Len(imagesToProcess'[r]) > 0) =>
                LET N == Len(imagesToProcess'[r])
                IN  /\ winStart'[r] = concurrencyLimit * (CeilWindows(N) - 1)
                    /\ Cardinality(WindowOf(imagesToProcess'[r], winStart'[r]))
                          \in 1..concurrencyLimit
                    /\ Len(task'[r]) = N
                    /\ \A j \in 1..N : task'[r][j].st = "done" /\ task'[r][j].calls = 1
                    /\ Len(results'[r]) = N ]_vars

\* a batch of three tasks was answered after two windows, the last of one task
C21_Witness ==
    \E r \in Reqs :
        /\ pc[r] = "done" /\ Len(imagesToProcess[r]) = 3
        /\ winStart[r] = 2
        /\ \A j \in 1..3 : task[r][j].st = "done" /\ task[r][j].calls = 1

\* C24: the completion of a task appends its result at the end of the results
\* of the snapshot of its session, so the snapshot is in completion order; the
\* results of the response of POST are in task order; and when a batch is
\* answered the snapshot of its session holds the same results as the response,
\* one per task
C24_SnapshotAndResponseResults ==
    [][ \A r \in { q \in Reqs : sessionId[q] \in SessionIds } :
          /\ \A j \in 1..Len(task[r]) :
                (task[r][j].st = "inflight" /\ task'[r][j].st = "done") =>
                    progressStore'[sessionId[r]].results =
                        Append(progressStore[sessionId[r]].results, task'[r][j].result)
          /\ (pc[r] = "run" /\ pc'[r] = "done") =>
                LET N == Len(imagesToProcess[r])
                    snapshot == progressStore'[sessionId[r]]
                IN  /\ Len(response'[r].results) = N
                    /\ \A j \in 1..N : response'[r].results[j] = task[r][j].result
                    /\ Len(snapshot.results) = N
                    /\ RangeOf(snapshot.results) = RangeOf(response'[r].results) ]_vars

\* the last task of the window of request r that is in flight
LastOfWindow(r) == MaxOf(WindowOf(imagesToProcess[r], winStart[r]))

\* C25: for a session written by a single batch, while a task of the window is
\* in flight the current field of the snapshot is the filename of the last
\* task of that window, the last one to have written it, whether that task
\* has completed or not
C25_CurrentNamesWindowTask ==
    \A r \in Reqs :
        ( /\ pc[r] = "run"
          /\ Cardinality(Writers(sessionId[r])) = 1
          /\ \E j \in WindowOf(imagesToProcess[r], winStart[r]) : task[r][j].st = "inflight" )
        => /\ progressStore[sessionId[r]].status = "processing"
           /\ progressStore[sessionId[r]].current =
                 imagesToProcess[r][LastOfWindow(r)].filename

\* current names the second task of a window, which has completed, while the
\* first task of the window is still in flight
C25_Witness ==
    \E r \in Reqs :
        /\ pc[r] = "run" /\ Cardinality(Writers(sessionId[r])) = 1
        /\ winStart[r] = 0 /\ Len(task[r]) >= 2
        /\ task[r][1].st = "inflight" /\ task[r][2].st = "done"
        /\ progressStore[sessionId[r]].current = imagesToProcess[r][2].filename
        /\ progressStore[sessionId[r]].completed = 1

\* C27: once the entry of a sessionId has status completed, no step changes
\* it, and no task of a request that carries that sessionId is in flight,
\* before or after the step
C27_CompletedIsTerminal ==
    [][ \A k \in SessionIds :
          (progressStore[k] # NoSnapshot /\ progressStore[k].status = "completed") =>
              /\ progressStore'[k] = progressStore[k]
              /\ \A r \in Reqs : \A j \in 1..Len(task[r]) :
                    sessionId[r] = k => task[r][j].st # "inflight"
              /\ \A r \in Reqs : \A j \in 1..Len(task'[r]) :
                    sessionId'[r] = k => task'[r][j].st # "inflight" ]_vars

\* C28: the step that returns the 200 response of a provider-backed POST leaves
\* the snapshot of its session with status completed and completed = total,
\* which is what a GET issued after the response reads
C28_ResponseAfterCompletion ==
    [][ \A r \in { q \in Reqs : sessionId[q] \in SessionIds } :
          (pc[r] = "run" /\ pc'[r] = "done" /\ response'[r].status = 200) =>
              /\ \A j \in 1..Len(task[r]) : task[r][j].st = "done"
              /\ progressStore'[sessionId[r]] # NoSnapshot
              /\ progressStore'[sessionId[r]].status = "completed"
              /\ progressStore'[sessionId[r]].completed = progressStore'[sessionId[r]].total
      ]_vars

(* ======================= app/api/status/route.ts ======================= *)
\* String.prototype.includes(t) on text kept as a string
Contains(s, t) ==
    \E i \in 1..(Len(s) - Len(t) + 1) : SubSeq(s, i, i + Len(t) - 1) = t

\* String.prototype.substring(a, b) for 0 <= a <= b
Substring(s, a, b) == SubSeq(s, a + 1, IF b < Len(s) THEN b ELSE Len(s))

JsNull == "<null>"

\* credentials of several lengths; two pairs of them share length and first
\* four characters
StatusKeys == {"qz", "qzxw", "qzxwv", "qzxwk", "qzxwvjkqzxwv", "qzxwvjkqzxwk"}

\* process.env as read by GET /status
StatusEnvs ==
    [ DEMO_MODE : {"true", "false", Undefined},
      FAL_KEY : StatusKeys \cup {Undefined, ""},
      FAL_API_KEY : {Undefined, "qzxwj", "vj"},
      FAL_EMAIL : {Undefined, "me@example.com"},
      FAL_PASSWORD : {Undefined, "hunter2"} ]

\* const apiKey = process.env.FAL_KEY || process.env.FAL_API_KEY, line 4
StatusApiKey(e) == IF EnvTruthy(e.FAL_KEY) THEN e.FAL_KEY ELSE e.FAL_API_KEY

\* the body of the response, lines 12-26
StatusBody(e) ==
    LET apiKey == StatusApiKey(e)
        demoMode == e.DEMO_MODE = "true"
        isValidFormat == EnvTruthy(apiKey) /\ Len(apiKey) > 10
    IN  [ status |-> 200,
          demoMode |-> demoMode,
          apiConfigured |-> EnvTruthy(apiKey),
          apiKeyFormat |-> IF isValidFormat THEN "valid" ELSE "invalid",
          provider |-> IF demoMode THEN "demo" ELSE IF EnvTruthy(apiKey) THEN "fal" ELSE "demo",
          message |-> IF demoMode THEN "Running in demo mode (DEMO_MODE=true)"
                      ELSE IF EnvTruthy(apiKey)
                           THEN "Fal.ai API key configured "
                                \o (IF isValidFormat THEN "(format looks correct)"
                                    ELSE "(please check format)")
                      ELSE "No API key found - running in demo mode",
          keyLength |-> IF EnvTruthy(apiKey) THEN Len(apiKey) ELSE 0,
          keyPrefix |-> IF EnvTruthy(apiKey) THEN Substring(apiKey, 0, 4) \o "..." ELSE JsNull,
          emailConfigured |-> EnvTruthy(e.FAL_EMAIL),
          passwordConfigured |-> EnvTruthy(e.FAL_PASSWORD) ]

InitStatus ==
    /\ env \in StatusEnvs
    /\ PipelineIdle
    /\ statusResponse = NoStatus
    /\ retry = NoRetry
    /\ extract = NoExtract
    /\ flux = NoFlux
    /\ client = NoClient

\* GET /status
StatusGet ==
    /\ statusResponse' = StatusBody(env)
    /\ UNCHANGED << env, pipelineVars, retry, extract, flux, client >>

NextStatus == StatusGet

SpecStatus == InitStatus /\ [][NextStatus]_vars

\* two environments that differ at most in the credential
SameButKey(e1, e2) ==
    /\ e1.DEMO_MODE = e2.DEMO_MODE
    /\ e1.FAL_EMAIL = e2.FAL_EMAIL
    /\ e1.FAL_PASSWORD = e2.FAL_PASSWORD

\* C12: the response of GET /status never contains the credential in use: no
\* text field of it, keyPrefix included, contains the whole key, whatever the
\* length of the key, and an environment whose key has the same length and the
\* same first 4 characters gets the same response
C12_StatusHidesCredential ==
    (statusResponse # NoStatus /\ EnvTruthy(StatusApiKey(env))) =>
        LET key == StatusApiKey(env)
        IN  /\ ~Contains(statusResponse.keyPrefix, key)
            /\ ~Contains(statusResponse.message, key)
            /\ \A e \in StatusEnvs :
                  ( /\ SameButKey(env, e)
                    /\ EnvTruthy(StatusApiKey(e))
                    /\ Len(StatusApiKey(e)) = Len(key)
                    /\ Substring(StatusApiKey(e), 0, 4) = Substring(key, 0, 4) )
                  => StatusBody(e) = statusResponse

\* C13: the demoMode field of GET /status is true exactly when POST /process
\* takes the demo path under the same environment, and apiConfigured is true
\* exactly when FAL_KEY or FAL_API_KEY is set
C13_StatusMatchesPost ==
    statusResponse # NoStatus =>
        /\ statusResponse.demoMode <=> IsDemo(env)
        /\ statusResponse.apiConfigured
              <=> (EnvTruthy(env.FAL_KEY) \/ EnvTruthy(env.FAL_API_KEY))

(* ============ route.ts: processImageWithRetry over any operation ============ *)
\* retryWithBackoff takes any fn: () => Promise<T>. Here processImageWithRetry
\* runs on its own over an operation that is free to reject or to resolve at
\* every invocation.
RetryImages ==
    { Image(<<"https://cdn.example.com/", "a.jpg">>, "a.jpg", FALSE),
      Image(<<"data:image/jpeg;base64,", "b.jpg">>, "b.jpg", TRUE) }

\* what invocation n of the operation ends with: one of two errors, which
\* carry the number of the invocation, or an answer
OpOutcomes(imageUrl, n) ==
    { Thrown("ETIMEDOUT at call " \o ToString(n)),
      Thrown("ECONNRESET at call " \o ToString(n)),
      Returned(TRUE, <<"https://fal.media/files/">> \o imageUrl, "", "req"),
      Returned(TRUE, <<>>, "", "req"),
      Returned(FALSE, <<>>, M_NoImages, "") }

NoOutcome == Returned(FALSE, <<>>, "", "")

InitRetry ==
    /\ env = [DEMO_MODE |-> Undefined, FAL_KEY |-> "key", FAL_API_KEY |-> Undefined]
    /\ PipelineIdle
    /\ statusResponse = NoStatus
    /\ extract = NoExtract
    /\ flux = NoFlux
    /\ client = NoClient
    /\ \E image \in RetryImages :
          retry = [pc |-> "call", image |-> image, retries |-> maxRetries,
                   delay |-> retryDelay, calls |-> 0, waits |-> <<>>, errors |-> <<>>,
                   last |-> NoOutcome, result |-> NoResult]

\* return await fn(), line 44: the operation is invoked
RetryCall ==
    /\ retry.pc = "call"
    /\ retry' = [retry EXCEPT !.pc = "pending", !.calls = @ + 1]
    /\ UNCHANGED << env, pipelineVars, statusResponse, extract, flux, client >>

\* the invocation settles: a resolved value is returned, a rejection enters
\* the catch of line 45
RetrySettle ==
    /\ retry.pc = "pending"
    /\ \E outcome \in OpOutcomes(retry.image.url, retry.calls) :
          retry' = [retry EXCEPT
                      !.last = outcome,
                      !.errors = IF outcome.thrown THEN Append(@, outcome.error) ELSE @,
                      !.pc = IF ShouldRetry(outcome, retry.retries) THEN "wait" ELSE "end"]
    /\ UNCHANGED << env, pipelineVars, statusResponse, extract, flux, client >>

\* the timer of line 48 fired: retryWithBackoff(fn, retries - 1, delay * 2)
RetryWait ==
    /\ retry.pc = "wait"
    /\ retry' = [retry EXCEPT !.pc = "call", !.waits = Append(@, retry.delay),
                              !.retries = @ - 1, !.delay = NextDelay(@)]
    /\ UNCHANGED << env, pipelineVars, statusResponse, extract, flux, client >>

\* retryWithBackoff returned or threw (line 51): processImageWithRetry builds
\* the result, lines 65-90
RetryEnd ==
    /\ retry.pc = "end"
    /\ retry' = [retry EXCEPT
                    !.pc = "done",
                    !.result = processImageWithRetry(retry.image.url, retry.image.filename,
                                                     retry.last)]
    /\ UNCHANGED << env, pipelineVars, statusResponse, extract, flux, client >>

NextRetry == RetryCall \/ RetrySettle \/ RetryWait \/ RetryEnd

SpecRetry == InitRetry /\ [][NextRetry]_vars

\* C18: when the operation rejected at every invocation and retryWithBackoff
\* has given up, the operation was invoked maxRetries + 1 = 4 times, the waits
\* were 2000, 4000 and 8000 ms, one between two consecutive invocations and
\* none after the last, and the rejection handed to the caller is the error of
\* the fourth invocation
C18_RejectingOperation ==
    (retry.pc \in {"end", "done"} /\ retry.last.thrown) =>
        /\ retry.calls = maxRetries + 1
        /\ retry.calls = 4
        /\ retry.waits = <<2000, 4000, 8000>>
        /\ Len(retry.errors) = 4
        /\ retry.last = Thrown(retry.errors[4])
        /\ retry.last \in OpOutcomes(retry.image.url, 4)
        /\ retry.pc = "done" =>
              /\ retry.result.status = "error"
              /\ retry.result.message = retry.errors[4]

\* four invocations rejected, the first and the last with different errors
C18_Witness ==
    /\ retry.pc = "done" /\ retry.last.thrown
    /\ Len(retry.errors) = 4
    /\ retry.errors[1] = "ETIMEDOUT at call 1"
    /\ retry.errors[4] = "ECONNRESET at call 4"
    /\ retry.result.message = "ECONNRESET at call 4"

StartsWith(s, t) == Len(t) <= Len(s) /\ SubSeq(s, 1, Len(t)) = t
EndsWith(s, t) == Len(t) <= Len(s) /\ SubSeq(s, Len(s) - Len(t) + 1, Len(s)) = t
IsDigit(c) == c \in {"0", "1", "2", "3", "4", "5", "6", "7", "8", "9"}

\* s.replace(/<prefix>\d+/, to): the leftmost match, with all its digits
ReplaceDigits(s, prefix, to) ==
    LET n == Len(prefix)
        starts == { i \in 1..(Len(s) - n) :
                      SubSeq(s, i, i + n - 1) = prefix /\ IsDigit(SubSeq(s, i + n, i + n)) }
    IN  IF starts = {} THEN s
        ELSE LET i == MinOf(starts)
                 e == MaxOf({ k \in (i + n)..Len(s) :
                                \A m \in (i + n)..k : IsDigit(SubSeq(s, m, m)) })
             IN  SubSeq(s, 1, i - 1) \o to \o SubSeq(s, e + 1, Len(s))

\* s.replace(/<from>/, to) for a literal pattern: the leftmost occurrence
ReplaceText(s, from, to) ==
    LET n == Len(from)
        starts == { i \in 1..(Len(s) - n + 1) : SubSeq(s, i, i + n - 1) = from }
    IN  IF starts = {} THEN s
        ELSE SubSeq(s, 1, MinOf(starts) - 1) \o to
             \o SubSeq(s, MinOf(starts) + n, Len(s))

\* lines 46-49 and 65-68
HighRes(src) ==
    ReplaceText(ReplaceDigits(ReplaceDigits(src, "/w_", "/w_2048"), "/h_", "/h_2048"),
                "/c_fill", "/c_fit")

GalleryEntry(url, filename, thumbnail) ==
    [url |-> url, filename |-> filename, thumbnail |-> thumbnail]

HasUrl(images, url) == \E n \in 1..Len(images) : images[n].url = url

\* strategy 1, lines 41-57: img[data-src], no test for duplicates
RECURSIVE Strategy1(_, _)
Strategy1(srcs, images) ==
    IF srcs = <<>> THEN images
    ELSE Strategy1(Tail(srcs),
            IF Contains(Head(srcs), "pixieset")
            THEN Append(images,
                    GalleryEntry(HighRes(Head(srcs)),
                                 "pixieset_image_" \o ToString(Len(images) + 1) \o ".jpg",
                                 Head(srcs)))
            ELSE images)

\* strategy 2, lines 60-80: img[src], without logos and icons, without the
\* URLs already found
RECURSIVE Strategy2(_, _)
Strategy2(srcs, images) ==
    IF srcs = <<>> THEN images
    ELSE Strategy2(Tail(srcs),
            IF /\ Contains(Head(srcs), "pixieset")
               /\ ~Contains(Head(srcs), "logo") /\ ~Contains(Head(srcs), "icon")
               /\ ~HasUrl(images, HighRes(Head(srcs)))
            THEN Append(images,
                    GalleryEntry(HighRes(Head(srcs)),
                                 "pixieset_image_" \o ToString(Len(images) + 1) \o ".jpg",
                                 Head(srcs)))
            ELSE images)

\* imageUrls.forEach of lines 88-96: idx is the 0-based index in the array
RECURSIVE PushStructured(_, _, _)
PushStructured(urls, k, images) ==
    IF k > Len(urls) THEN images
    ELSE PushStructured(urls, k + 1,
            IF Contains(urls[k], "pixieset")
            THEN Append(images,
                    GalleryEntry(urls[k], "structured_image_" \o ToString(k) \o ".jpg",
                                 urls[k]))
            ELSE images)

\* strategy 3, lines 83-101: the image arrays of the JSON-LD scripts
RECURSIVE Strategy3(_, _)
Strategy3(scripts, images) ==
    IF scripts = <<>> THEN images
    ELSE Strategy3(Tail(scripts),
            IF Head(scripts).ldjson THEN PushStructured(Head(scripts).urls, 1, images)
            ELSE images)

\* the pattern of line 108 on a URL written in a script: https, pixieset in
\* the middle, an image extension at the end
ScriptUrlMatches(url) ==
    /\ StartsWith(url, "https://")
    /\ \E i \in 10..(Len(url) - 12) : SubSeq(url, i, i + 7) = "pixieset"
    /\ EndsWith(url, ".jpg") \/ EndsWith(url, ".jpeg") \/ EndsWith(url, ".png")

\* imageUrlMatches.forEach of lines 110-118
RECURSIVE PushExtracted(_, _, _)
PushExtracted(matches, k, images) ==
    IF k > Len(matches) THEN images
    ELSE PushExtracted(matches, k + 1,
            IF ~HasUrl(images, matches[k])
            THEN Append(images,
                    GalleryEntry(matches[k], "js_extracted_" \o ToString(k) \o ".jpg",
                                 matches[k]))
            ELSE images)

\* strategy 4, lines 104-120: every script element, the JSON-LD ones included
RECURSIVE Strategy4(_, _)
Strategy4(scripts, images) ==
    IF scripts = <<>> THEN images
    ELSE Strategy4(Tail(scripts),
            PushExtracted(SelectSeq(Head(scripts).urls, ScriptUrlMatches), 1, images))

\* faulty variant: the filter of line 125 keeps every entry
uniqueImagesKeepsAll(images) ==
    [n \in 1..Len(images) |-> [entry |-> images[n], first |-> TRUE]]

\* images.filter((img, index, self) => index === self.findIndex(...)), line 125
uniqueImages(images) ==
    SelectSeq([n \in 1..Len(images) |->
                  [entry |-> images[n],
                   first |-> \A m \in 1..(n - 1) : images[m].url # images[n].url]],
              LAMBDA x : x.first)

\* the images array after the four strategies, lines 34-120
FoundImages(page) ==
    Strategy4(page.scripts,
       Strategy3(page.scripts,
          Strategy2(page.src, Strategy1(page.dataSrc, <<>>))))

\* the list the four strategies build and line 125 filters
Scrape(page) ==
    LET kept == uniqueImages(FoundImages(page))
    IN  [n \in 1..Len(kept) |-> kept[n].entry]

\* slice(0, 20), line 143
GalleryLimit == 20
\* faulty variant: the slice keeps one entry more
TakeOneMore(seq, n) == SubSeq(seq, 1, IF Len(seq) < n + 1 THEN Len(seq) ELSE n + 1)
Take(seq, n) == SubSeq(seq, 1, IF Len(seq) < n THEN Len(seq) ELSE n)

ExtractThrown(message) == [thrown |-> TRUE, error |-> message, images |-> <<>>]
ExtractReturned(images) == [thrown |-> FALSE, error |-> "", images |-> images]

\* extractPixiesetGallery, lines 10-148, given what the fetch of the page met
extractPixiesetGallery(page) ==
    IF page.kind = "throws"
    THEN ExtractThrown("Failed to extract gallery: fetch failed")
    ELSE IF page.kind = "nonOk"
    THEN ExtractThrown("Failed to extract gallery: HTTP 404: Not Found")
    ELSE IF Len(Scrape(page)) = 0 /\ page.password
    THEN ExtractThrown("Failed to extract gallery: Gallery appears to be password protected")
    ELSE IF Len(Scrape(page)) = 0 /\ ~page.pixieset
    THEN ExtractThrown("Failed to extract gallery: This doesn't appear to be a Pixieset gallery page")
    ELSE ExtractReturned(Take(Scrape(page), GalleryLimit))

\* new URL(galleryUrl) does not throw: the text has a scheme
ParsesAsUrl(url) == Contains(url, "://") /\ ~StartsWith(url, "://")

\* the galleryUrl of the request body
ExtractRequests ==
    { Undefined, "", "wedding gallery", "pixieset.com/wedding",
      "https://www.smugmug.com/wedding", "https://studio.pixieset.com/wedding/" }

\* sources of the images of a page
SrcA400 == "https://images.pixieset.com/w_400/h_300/c_fill/a.jpg"
SrcA800 == "https://images.pixieset.com/w_800/h_600/c_fill/a.jpg"
SrcB == "https://images.pixieset.com/w_400/b.jpg"
SrcLogo == "https://cdn.pixieset.com/logo.png"
SrcOther == "https://cdn.example.com/banner.jpg"
SrcAHigh == "https://images.pixieset.com/w_2048/h_2048/c_fit/a.jpg"
SrcC == "https://images.pixieset.com/original/c.png"

\* a script that lists more images than the limit of line 143
MaxScriptUrls == 21
ScriptUrl(n) == "https://images.pixieset.com/original/p" \o ToString(n) \o ".jpg"
ManyScriptUrls == [n \in 1..MaxScriptUrls |-> ScriptUrl(n)]

SeqsUpTo(S, n) == UNION { [1..k -> S] : k \in 0..n }

\* what the fetch of line 15 meets: an exception, a non-OK answer, or a page
\* given by what the four strategies look at and by the two tests on its text
NoPage == [kind |-> "none"]
Pages ==
    { [kind |-> k] : k \in {"throws", "nonOk"} }
    \cup { pg \in [ kind : {"ok"},
                     dataSrc : SeqsUpTo({SrcA400, SrcA800, SrcOther}, 2),
                     src : SeqsUpTo({SrcA400, SrcB, SrcLogo}, 1),
                     scripts : SeqsUpTo([ldjson : BOOLEAN,
                                         urls : SeqsUpTo({SrcAHigh, SrcC}, 2)], 1),
                     password : BOOLEAN,
                     pixieset : BOOLEAN ] :
             \* a page that holds a pixieset URL includes the text "pixieset"
             (pg.dataSrc \in SeqsUpTo({SrcOther}, 2) /\ pg.src = <<>> /\ pg.scripts \in SeqsUpTo([ldjson : BOOLEAN, urls : {<<>>}], 1))
             \/ pg.pixieset }
    \cup [ kind : {"ok"},
           dataSrc : SeqsUpTo({SrcA400, SrcA800, SrcOther}, 2),
           src : {<<>>},
           scripts : { << [ldjson |-> b, urls |-> ManyScriptUrls] >> : b \in BOOLEAN },
           password : {FALSE},
           pixieset : {TRUE} ]

ExtractResponse(status, error, images) ==
    [status |-> status, error |-> error, images |-> images]

InitExtract ==
    /\ env = [DEMO_MODE |-> Undefined, FAL_KEY |-> "key", FAL_API_KEY |-> Undefined]
    /\ PipelineIdle
    /\ statusResponse = NoStatus
    /\ retry = NoRetry
    /\ flux = NoFlux
    /\ client = NoClient
    /\ \E url \in ExtractRequests :
          extract = [pc |-> "idle", galleryUrl |-> url, page |-> NoPage,
                     response |-> ExtractResponse(0, "", <<>>)]

\* POST /extract-gallery up to the fetch of the page, lines 150-170
ExtractPost ==
    /\ extract.pc = "idle"
    /\ LET url == extract.galleryUrl
       IN  IF ~EnvTruthy(url)
           THEN extract' = [extract EXCEPT !.pc = "done",
                   !.response = ExtractResponse(400, "Gallery URL is required", <<>>)]
           ELSE IF ~ParsesAsUrl(url)
           THEN extract' = [extract EXCEPT !.pc = "done",
                   !.response = ExtractResponse(400, "Invalid URL format", <<>>)]
           ELSE IF ~Contains(url, "pixieset.com")
           THEN extract' = [extract EXCEPT !.pc = "done",
                   !.response = ExtractResponse(400,
                       "Currently only Pixieset galleries are supported", <<>>)]
           ELSE extract' = [extract EXCEPT !.pc = "fetch"]
    /\ UNCHANGED << env, pipelineVars, statusResponse, retry, flux, client >>

\* the fetch of the page settled: the page is scraped and the request is
\* answered, lines 28-146 and 170-190
ExtractFetched ==
    /\ extract.pc = "fetch"
    /\ \E page \in Pages :
          LET outcome == extractPixiesetGallery(page)
          IN  extract' = [extract EXCEPT
                 !.pc = "done",
                 !.page = page,
                 !.response =
                    IF outcome.thrown THEN ExtractResponse(500, outcome.error, <<>>)
                    ELSE IF Len(outcome.images) = 0
                    THEN ExtractResponse(404, "No images found in the gallery. Please check the URL and ensure it's a public gallery.", <<>>)
                    ELSE ExtractResponse(200, "", outcome.images)]
    /\ UNCHANGED << env, pipelineVars, statusResponse, retry, flux, client >>

NextExtract == ExtractPost \/ ExtractFetched

SpecExtract == InitExtract /\ [][NextExtract]_vars

\* the galleryUrl is missing, is not a URL, or names another platform
BadGalleryUrl(url) ==
    ~EnvTruthy(url) \/ ~ParsesAsUrl(url) \/ ~Contains(url, "pixieset.com")

\* C17: POST /extract-gallery answers 400 exactly when galleryUrl is missing,
\* is not a URL or does not name the supported platform; it answers 404
\* whenever the page was fetched and no image was found in it, a page that
\* mentions a password or is not a page of the platform included; and it
\* answers 500 only when the fetch of the page failed
C17_ExtractStatus ==
    extract.pc = "done" =>
        /\ extract.response.status = 400 <=> BadGalleryUrl(extract.galleryUrl)
        /\ (extract.page # NoPage /\ extract.page.kind = "ok"
               /\ Len(Scrape(extract.page)) = 0)
              => extract.response.status = 404
        /\ extract.response.status = 500
              => (extract.page # NoPage /\ extract.page.kind \in {"throws", "nonOk"})

(* ======================= lib/watermark-api.ts: one call ======================= *)
(* One call of removeWatermark, step by step: flux.log is the sequence of the
   fetches the call has issued. *)
M_Network == "fetch failed"
M_Endpoint == "Custom endpoint not configured"
M_Upload == "Upload failed"
M_Processing == "Processing failed"
M_Request == "API request failed"

\* the image URLs of a call: remote, site relative, protocol relative, the
\* placeholder of the page, and a data: URL
FluxUrls ==
    { <<"https://blob.vercel-storage.com/uploads/", "a.jpg">>,
      <<"/", "uploads/a.jpg">>,
      <<"/", "/images.pixieset.com/a.jpg">>,
      <<"https://example.com/", "placeholder.svg">>,
      <<"data:image/jpeg;base64,", "a.jpg">> }

\* the answers of the provider: non-OK ones with a JSON or another body, OK
\* ones with or without images and request_id
FalResponses(imageUrl) ==
    { FalResponse(st, TRUE, d, <<>>, "") :
        st \in {401, 403, 422, 500}, d \in {"", "file_download_error"} }
    \cup { FalResponse(st, FALSE, "", <<>>, "") : st \in {200, 401, 403, 422, 500} }
    \cup { FalResponse(200, TRUE, "", i, q) :
             i \in { <<>>, << <<"https://fal.media/files/">> \o imageUrl >> },
             q \in {"", "req"} }

\* the outcomes of the HEAD request of lines 50-59
ProbeOutcomes == {"ok", "nonOk", "throws"}

\* what the try block of an adapter other than 'fal' ends with, lines 160-317
AdapterTryOutcomes(provider) ==
    { Thrown(M_Network),
      Returned(TRUE, <<"https://provider/", "processed.jpg">>, "", "job") }
    \cup (IF provider = "lightpdf" THEN { Thrown(M_Upload), Thrown(M_Processing) }
          ELSE { Thrown(M_Request) })
    \cup (IF provider = "custom" THEN { Thrown(M_Endpoint) } ELSE {})

\* every end of the try block of removeWithFluxKontext for a URL
FluxTryAll(imageUrl) ==
    IF IsLocalUrl(imageUrl) THEN { Thrown(M_Local) }
    ELSE { Thrown(M_Probe), Thrown(M_Network) }
         \cup { FluxAfterSubmit(imageUrl, a) : a \in FalResponses(imageUrl) }

FluxCallOf(provider, imageUrl) ==
    [pc |-> "start", provider |-> provider, imageUrl |-> imageUrl, log |-> <<>>,
     probe |-> "", resp |-> NoFalResponse, outcome |-> NoOutcome]

InitFlux ==
    /\ env = [DEMO_MODE |-> Undefined, FAL_KEY |-> "key", FAL_API_KEY |-> Undefined]
    /\ PipelineIdle
    /\ statusResponse = NoStatus
    /\ retry = NoRetry
    /\ extract = NoExtract
    /\ client = NoClient
    /\ \E provider \in SupportedProviders \cup {"other"}, imageUrl \in FluxUrls :
          flux = FluxCallOf(provider, imageUrl)

\* removeWatermark is called: the switch of lines 22-35; removeWithFluxKontext
\* validates the URL (44-47) and issues the HEAD request (51)
FluxCall ==
    /\ flux.pc = "start"
    /\ flux' =
         IF flux.provider \notin SupportedProviders
         THEN [flux EXCEPT !.pc = "done",
                           !.outcome = removeWatermark(flux.provider, NoOutcome)]
         ELSE IF flux.provider # "fal" THEN [flux EXCEPT !.pc = "adapter"]
         ELSE IF IsLocalUrl(flux.imageUrl)
              THEN [flux EXCEPT !.pc = "done",
                                !.outcome = removeWatermark(flux.provider, Thrown(M_Local))]
              ELSE [flux EXCEPT !.pc = "probing", !.log = Append(@, "HEAD")]
    /\ UNCHANGED << env, pipelineVars, statusResponse, retry, extract, client >>

\* the HEAD request settled: a non-OK status or a rejection throws the
\* cannot-access error (52-58), otherwise the submission is issued (77)
FluxProbed ==
    /\ flux.pc = "probing"
    /\ \E probe \in ProbeOutcomes :
          flux' =
            IF probe = "ok"
            THEN [flux EXCEPT !.pc = "submitting", !.probe = probe,
                              !.log = Append(@, "POST")]
            ELSE [flux EXCEPT !.pc = "done", !.probe = probe,
                              !.outcome = removeWatermark(flux.provider, Thrown(M_Probe))]
    /\ UNCHANGED << env, pipelineVars, statusResponse, retry, extract, client >>

\* the submission settled: the fetch rejected, or the response is classified
\* (90-150); the catch block turns a throw into a value (151-157)
FluxAnswered ==
    /\ flux.pc = "submitting"
    /\ \/ flux' = [flux EXCEPT !.pc = "done",
                      !.outcome = removeWatermark(flux.provider, Thrown(M_Network))]
       \/ \E resp \in FalResponses(flux.imageUrl) :
             flux' = [flux EXCEPT !.pc = "done", !.resp = resp,
                         !.outcome = removeWatermark(flux.provider,
                                                     FluxAfterSubmit(flux.imageUrl, resp))]
    /\ UNCHANGED << env, pipelineVars, statusResponse, retry, extract, client >>

\* one of the four other adapters ended
AdapterAnswered ==
    /\ flux.pc = "adapter"
    /\ \E inner \in AdapterTryOutcomes(flux.provider) :
          flux' = [flux EXCEPT !.pc = "done",
                               !.outcome = removeWatermark(flux.provider, inner)]
    /\ UNCHANGED << env, pipelineVars, statusResponse, retry, extract, client >>

NextFlux == FluxCall \/ FluxProbed \/ FluxAnswered \/ AdapterAnswered

SpecFlux == InitFlux /\ [][NextFlux]_vars

\* C22: a call of the 'fal' adapter issues at most a HEAD request and then a
\* POST request; for a URL that starts with "/" or contains placeholder.svg it
\* issues neither; after a probe that was not OK or threw, it has issued the
\* HEAD request only and returns success false with the cannot-access message;
\* the POST request is only found after a probe that was OK
C22_ValidateProbeSubmit ==
    flux.pc # "off" /\ flux.provider = "fal" =>
        /\ flux.log \in { <<>>, <<"HEAD">>, <<"HEAD", "POST">> }
        /\ (flux.imageUrl[1] = "/" \/ \E k \in 1..Len(flux.imageUrl) :
                                          flux.imageUrl[k] = "placeholder.svg")
              => /\ flux.log = <<>>
                 /\ flux.pc \in {"start", "done"}
                 /\ flux.pc = "done" => flux.outcome = Returned(FALSE, <<>>, M_Local, "")
        /\ flux.probe \in {"nonOk", "throws"}
              => /\ flux.pc = "done"
                 /\ flux.log = <<"HEAD">>
                 /\ flux.outcome = Returned(FALSE, <<>>, M_Probe, "")
        /\ flux.log = <<"HEAD", "POST">> => flux.probe = "ok"
        /\ flux.pc = "submitting" => flux.log = <<"HEAD", "POST">>
        /\ (flux.pc = "done" /\ flux.resp # NoFalResponse) => flux.log = <<"HEAD", "POST">>

\* the probe of a remote URL answered with a non-OK status and the call ended
\* without a submission
C22_Witness ==
    /\ flux.provider = "fal" /\ flux.pc = "done"
    /\ flux.probe = "nonOk" /\ flux.log = <<"HEAD">>
    /\ flux.outcome.error = M_Probe

\* C23: for a non-OK answer of the provider, 401 gives the invalid-key
\* message, 403 the forbidden message and 422 with a file_download_error
\* detail the cannot-download message, whatever the body is; the three
\* messages differ and none is the generic one
C23_MessageByStatus ==
    /\ Cardinality({M_401, M_403, M_Download, M_Generic, M_NonJson}) = 5
    /\ (flux.pc = "done" /\ flux.provider = "fal" /\ flux.resp # NoFalResponse
           /\ ~ResponseOk(flux.resp)) =>
          /\ ~flux.outcome.success
          /\ flux.resp.status = 401 => flux.outcome.error = M_401
          /\ flux.resp.status = 403 => flux.outcome.error = M_403
          /\ (flux.resp.status = 422 /\ flux.resp.detailType = "file_download_error")
                => flux.outcome.error = M_Download

\* C29: whatever the try block of an adapter ends with, for each of the five
\* supported providers removeWatermark returns a value, with an error text
\* when success is false, and it rejects for a provider that is not
\* supported; so in the pipeline no task waits for a retry, every task in
\* flight has made one call of removeWatermark and every completed task
\* exactly one
C29_AdaptersNeverReject ==
    /\ \A r \in Reqs : \A j \in 1..Len(task[r]) :
          /\ task[r][j].calls <= 1
          /\ task[r][j].waits = <<>>
          /\ task[r][j].retries = maxRetries
          /\ task[r][j].st \in {"inflight", "done"} => task[r][j].calls = 1
          /\ \A inner \in FluxTryAll(imagesToProcess[r][j].url) :
                LET outcome == removeWatermark(ConfiguredProvider, inner)
                IN  /\ ~outcome.thrown
                    /\ ~ShouldRetry(outcome, task[r][j].retries)
                    /\ ~outcome.success => outcome.error # ""
    /\ \A provider \in SupportedProviders \ {"fal"} :
          \A inner \in AdapterTryOutcomes(provider) :
              ~removeWatermark(provider, inner).thrown
    /\ removeWatermark("other", NoOutcome).thrown

\* a task whose probe failed has completed with the error as a result, after
\* one call and no wait
C29_Witness ==
    \E r \in Reqs : \E j \in 1..Len(task[r]) :
        /\ task[r][j].st = "done" /\ task[r][j].calls = 1 /\ task[r][j].waits = <<>>
        /\ task[r][j].result.status = "error"
        /\ task[r][j].result.message = M_Probe

(* ---------------- properties of the gallery extraction ---------------- *)
\* the positions of the images array that hold a URL for the first time
FirstFound(found) ==
    { n \in 1..Len(found) : \A m \in 1..(n - 1) : found[m].url # found[n].url }

\* C26: the images of a 200 answer of the extraction have pairwise different
\* URLs, are at most 20, and are, in the order of discovery, the first 20 of
\* the entries that the four strategies found first for their URL
C26_UniqueFirstFoundCapped ==
    (extract.pc = "done" /\ extract.response.status = 200) =>
        LET images == extract.response.images
            found == FoundImages(extract.page)
            firsts == FirstFound(found)
        IN  /\ \A a, b \in 1..Len(images) : a # b => images[a].url # images[b].url
            /\ Len(images) <= 20
            /\ Len(images) = IF Cardinality(firsts) < 20 THEN Cardinality(firsts) ELSE 20
            /\ \A n \in 1..Len(images) :
                  \E k \in firsts :
                      /\ Cardinality({ m \in firsts : m <= k }) = n
                      /\ images[n] = found[k]

\* the strategies found the same URL twice and more than 20 different URLs:
\* the answer holds 20 images
C26_Witness ==
    /\ extract.pc = "done" /\ extract.response.status = 200
    /\ Len(extract.response.images) = 20
    /\ Len(FoundImages(extract.page)) > Cardinality(FirstFound(FoundImages(extract.page)))
    /\ Cardinality(FirstFound(FoundImages(extract.page))) > 20

(* ======================= app/page.tsx: handleProcessImages ======================= *)
(* The state of the page (isProcessing, error, progress) and the position of
   the handler: client.pc is "posting" while the POST is in flight, "demoWait"
   and "pollWait" while a timer is armed, "polling" while a GET is in flight,
   and "rest" when the handler has nothing in flight and no timer armed. *)
MaxPolls == 3
MaxTotal == 3

ClientProgress(total, completed, current, status) ==
    [total |-> total, completed |-> completed, current |-> current, status |-> status]
\* useState(null), line 29
NullProgress == ClientProgress(0, 0, "", "null")

\* the answers of POST /api/process-images the handler tells apart: the fetch
\* or response.json() throws, a non-OK status, a demo answer with n results,
\* an answer of the provider-backed mode
PostAnswers ==
    { [kind |-> k, n |-> 0] : k \in {"throws", "nonOk", "ok"} }
    \cup { [kind |-> "demo", n |-> n] : n \in 0..MaxTotal }

\* the answers of GET /api/process-images: the fetch throws, a non-OK status
\* (400, 404), or a snapshot
PollAnswers ==
    { [kind |-> k, progress |-> NullProgress] : k \in {"throws", "nonOk"} }
    \cup UNION { { [kind |-> "ok",
                     progress |-> ClientProgress(t, c, FileName(c + 1), "processing")] :
                       c \in 0..(t - 1) } : t \in 1..MaxTotal }
    \cup { [kind |-> "ok", progress |-> ClientProgress(t, t, FileName(t), st)] :
             t \in 1..MaxTotal, st \in {"completed", "error"} }

InitClient ==
    /\ env = [DEMO_MODE |-> Undefined, FAL_KEY |-> "key", FAL_API_KEY |-> Undefined]
    /\ PipelineIdle
    /\ statusResponse = NoStatus
    /\ retry = NoRetry
    /\ extract = NoExtract
    /\ flux = NoFlux
    /\ client = [pc |-> "idle", isProcessing |-> FALSE, error |-> "",
                 progress |-> NullProgress, i |-> 0, n |-> 0, polls |-> 0]

\* the button is pressed (it is disabled while isProcessing, line 307): lines
\* 59-90, up to the fetch of the POST
ClientStart ==
    /\ client.pc \in {"idle", "rest"}
    /\ ~client.isProcessing
    /\ client' = [client EXCEPT !.pc = "posting", !.isProcessing = TRUE, !.error = "",
                                !.progress = NullProgress, !.i = 0, !.n = 0]
    /\ UNCHANGED << env, pipelineVars, statusResponse, retry, extract, flux >>

\* the POST settled, lines 90-179: a failure goes to the catch of 176-179, a
\* demo answer starts the loop of 113-134, another answer arms the first poll
ClientPostAnswered ==
    /\ client.pc = "posting"
    /\ \E answer \in PostAnswers :
          client' =
            IF answer.kind = "throws"
            THEN [client EXCEPT !.pc = "rest", !.isProcessing = FALSE,
                                !.error = "An error occurred"]
            ELSE IF answer.kind = "nonOk"
            THEN [client EXCEPT !.pc = "rest", !.isProcessing = FALSE,
                                !.error = "Processing failed"]
            ELSE IF answer.kind = "demo"
            THEN IF answer.n = 0
                 THEN [client EXCEPT !.pc = "rest", !.isProcessing = FALSE,
                          !.progress = ClientProgress(0, 0, "", "completed")]
                 ELSE [client EXCEPT !.pc = "demoWait", !.n = answer.n, !.i = 0,
                          !.progress = ClientProgress(answer.n, 0, FileName(1), "processing")]
            ELSE [client EXCEPT !.pc = "pollWait"]
    /\ UNCHANGED << env, pipelineVars, statusResponse, retry, extract, flux >>

\* the 1500 ms timer of the demo loop fired, lines 125-148
ClientDemoTick ==
    /\ client.pc = "demoWait"
    /\ client' =
         IF client.i + 1 < client.n
         THEN [client EXCEPT !.i = @ + 1,
                  !.progress = [@ EXCEPT !.completed = client.i + 1,
                                         !.current = FileName(client.i + 2)]]
         ELSE [client EXCEPT !.pc = "rest", !.i = @ + 1, !.isProcessing = FALSE,
                  !.progress = [@ EXCEPT !.completed = client.i + 1,
                                         !.current = "", !.status = "completed"]]
    /\ UNCHANGED << env, pipelineVars, statusResponse, retry, extract, flux >>

\* the 1000 ms timer fired: pollProgress issues the GET, line 153
ClientTimer ==
    /\ client.pc = "pollWait"
    /\ client.polls < MaxPolls
    /\ client' = [client EXCEPT !.pc = "polling", !.polls = @ + 1]
    /\ UNCHANGED << env, pipelineVars, statusResponse, retry, extract, flux >>

\* the GET settled, lines 154-171: only an OK answer is looked at, and only a
\* snapshot that is neither completed nor error arms the timer again; the
\* catch of 169-171 logs
ClientPollAnswered ==
    /\ client.pc = "polling"
    /\ \E answer \in PollAnswers :
          client' =
            IF answer.kind # "ok" THEN [client EXCEPT !.pc = "rest"]
            ELSE IF answer.progress.status = "completed"
            THEN [client EXCEPT !.pc = "rest", !.progress = answer.progress,
                                !.isProcessing = FALSE]
            ELSE IF answer.progress.status = "error"
            THEN [client EXCEPT !.pc = "rest", !.progress = answer.progress,
                                !.error = "Processing failed", !.isProcessing = FALSE]
            ELSE [client EXCEPT !.pc = "pollWait", !.progress = answer.progress]
    /\ UNCHANGED << env, pipelineVars, statusResponse, retry, extract, flux >>

NextClient ==
    ClientStart \/ ClientPostAnswered \/ ClientDemoTick \/ ClientTimer \/ ClientPollAnswered

SpecClient == InitClient /\ [][NextClient]_vars

\* C30: isProcessing becomes false again in every execution: whenever the
\* handler has come to rest, with no request in flight and no timer armed,
\* after which nothing sets isProcessing any more, isProcessing is false
C30_ProcessingEnds ==
    (client.pc = "rest") => ~client.isProcessing
====
